---- MODULE Spec2Model ----
(***************************************************************************)
(* Model of the roman numeral parser (rome.c, result.c).                   *)
(*                                                                         *)
(* A C string is a sequence of characters; reading one past its end gives  *)
(* the NUL terminator.  A cursor (the C pointer str) is a 1-based index.   *)
(* One call of parse_roman_number is a small state machine: the code up to *)
(* the loop, one loop iteration, and the return after the loop.            *)
(***************************************************************************)
EXTENDS Integers, Sequences, FiniteSets, TLC

VARIABLES
    input,      \* the string handed to parse_roman_number
    pc,         \* position in parse_roman_number (or in a direct call of valid_sequence)
    pos,        \* the cursor str, as an index into input
    prev,       \* struct token prev
    next,       \* struct token next (of the latest loop iteration)
    tally,      \* int tally
    result,     \* the struct result returned
    last,       \* the latest call of consume_next_token: where it started, what it returned
    valid,      \* the latest return value of valid_sequence: "true", "false", or "none" before any call
    iters,      \* number of loop iterations executed
    origin      \* how the caller produced input: the value it rendered, if it rendered one

vars == <<input, pc, pos, prev, next, tally, result, last, valid, iters, origin>>

----------------------------------------------------------------------------
(* Bounds *)

MaxLen == 5          \* arbitrary input strings have at most MaxLen characters
MaxValue == 3999     \* canonical numerals of 1..MaxValue are inputs
MaxM == 6            \* runs of M of up to MaxM letters
MaxLiveLen == 4      \* as MaxLen, for the behaviours checked for termination

----------------------------------------------------------------------------
(* Characters and strings *)

NUL == "NUL"         \* the terminating '\0'
NL == "\n"
Other == "Z"         \* a character that is not a roman letter

Letters == {"I", "V", "X", "L", "C", "D", "M"}
Alphabet == Letters \cup {NL, Other}

CharAt(str, i) == IF i \in 1..Len(str) THEN str[i] ELSE NUL

----------------------------------------------------------------------------
(* result.c *)

NULL == [fmt |-> "NULL", args |-> <<>>]

success(x) == [value |-> x, error |-> NULL]

errorf(fmt, args) == [value |-> 0, error |-> [fmt |-> fmt, args |-> args]]

----------------------------------------------------------------------------
(* rome.c: helpers *)

\* struct token: the union overlays prefix with digit and suffix with count
Token(type, a, b) == [type |-> type, prefix |-> a, suffix |-> b, digit |-> a, count |-> b]

NoToken == Token("NONE", 0, 0)       \* a struct token not yet written
Pair(prefix, suffix) == Token("PAIR", prefix, suffix)
Repeat(digit, count) == Token("REPEAT", digit, count)

\* the default case falls through to a return of true
parse_roman_character_nodefault(c) ==
    CASE c = "I" -> [ok |-> TRUE, out |-> 1]
      [] c = "V" -> [ok |-> TRUE, out |-> 5]
      [] c = "X" -> [ok |-> TRUE, out |-> 10]
      [] c = "L" -> [ok |-> TRUE, out |-> 50]
      [] c = "C" -> [ok |-> TRUE, out |-> 100]
      [] c = "D" -> [ok |-> TRUE, out |-> 500]
      [] c = "M" -> [ok |-> TRUE, out |-> 1000]
      [] OTHER   -> [ok |-> TRUE, out |-> 1000]

parse_roman_character(c) ==
    CASE c = "I" -> [ok |-> TRUE, out |-> 1]
      [] c = "V" -> [ok |-> TRUE, out |-> 5]
      [] c = "X" -> [ok |-> TRUE, out |-> 10]
      [] c = "L" -> [ok |-> TRUE, out |-> 50]
      [] c = "C" -> [ok |-> TRUE, out |-> 100]
      [] c = "D" -> [ok |-> TRUE, out |-> 500]
      [] c = "M" -> [ok |-> TRUE, out |-> 1000]
      [] OTHER   -> [ok |-> FALSE, out |-> 0]

digit_to_roman(d) ==
    CASE d = 1    -> "I"
      [] d = 5    -> "V"
      [] d = 10   -> "X"
      [] d = 50   -> "L"
      [] d = 100  -> "C"
      [] d = 500  -> "D"
      [] d = 1000 -> "M"
      [] OTHER    -> "?"

\* the pair subtracted the wrong way round
token_value_swapped(t) ==
    IF t.type = "REPEAT" THEN t.digit * t.count ELSE t.prefix - t.suffix

token_value(t) ==
    IF t.type = "REPEAT" THEN t.digit * t.count ELSE t.suffix - t.prefix

\* L and C also take the prefix I
valid_pair_loose(prefix, suffix) ==
    CASE suffix \in {5, 10}     -> prefix = 1
      [] suffix \in {50, 100}   -> prefix <= 10
      [] suffix \in {500, 1000} -> prefix = 100
      [] OTHER                  -> FALSE

valid_pair(prefix, suffix) ==
    CASE suffix \in {5, 10}     -> prefix = 1
      [] suffix \in {50, 100}   -> prefix = 10
      [] suffix \in {500, 1000} -> prefix = 100
      [] OTHER                  -> FALSE

\* count <= 4 where the code has count < 4
valid_repeats_four(main, count) ==
    IF count = 0 THEN FALSE
    ELSE CASE main \in {5, 50, 500}  -> count = 1
           [] main \in {1, 10, 100}  -> count <= 4
           [] main = 1000            -> TRUE
           [] OTHER                  -> FALSE

valid_repeats(main, count) ==
    IF count = 0 THEN FALSE
    ELSE CASE main \in {5, 50, 500}  -> count = 1
           [] main \in {1, 10, 100}  -> count < 4
           [] main = 1000            -> TRUE
           [] OTHER                  -> FALSE

\* without the second rule: V, L and D compared like the other digits
valid_sequence_norule2(first, second) ==
    LET first_prefix == IF first.type = "PAIR" THEN first.prefix ELSE first.digit
        second_prefix == IF second.type = "PAIR" THEN second.prefix ELSE second.digit
    IN  first_prefix > second_prefix

\* >= where the code has >
valid_sequence_ge(first, second) ==
    LET first_prefix == IF first.type = "PAIR" THEN first.prefix ELSE first.digit
    IN  IF first_prefix = 5 \/ first_prefix = 50 \/ first_prefix = 500
        THEN LET second_suffix == IF second.type = "PAIR" THEN second.suffix ELSE second.digit
             IN  first_prefix >= second_suffix
        ELSE LET second_prefix == IF second.type = "PAIR" THEN second.prefix ELSE second.digit
             IN  first_prefix >= second_prefix

valid_sequence(first, second) ==
    LET first_prefix == IF first.type = "PAIR" THEN first.prefix ELSE first.digit
    IN  IF first_prefix = 5 \/ first_prefix = 50 \/ first_prefix = 500
        THEN LET second_suffix == IF second.type = "PAIR" THEN second.suffix ELSE second.digit
             IN  first_prefix > second_suffix
        ELSE LET second_prefix == IF second.type = "PAIR" THEN second.prefix ELSE second.digit
             IN  first_prefix > second_prefix

\* The bytes a buffer holds when sprint_token returned false without writing it
Uninitialized == {<<>>, <<"?">>}

\* sprint_token(buff, len, t): ok is the return value, buff the string written
sprint_token(len, t) ==
    IF t.type = "REPEAT"
    THEN IF len < t.count + 1
         THEN [ok |-> FALSE, buff |-> <<>>]
         ELSE [ok |-> TRUE, buff |-> [i \in 1..t.count |-> digit_to_roman(t.digit)]]
    ELSE IF len < 3
         THEN [ok |-> FALSE, buff |-> <<>>]
         ELSE [ok |-> TRUE, buff |-> <<digit_to_roman(t.prefix), digit_to_roman(t.suffix)>>]

----------------------------------------------------------------------------
(* rome.c: the tokenizer *)

\* What consume_next_token hands back: the struct result and the token written to *t
\* (NoToken when *t was not written).
TokenResult(res, t) == [value |-> res.value, error |-> res.error, t |-> t]

\* The loop "for (it = str+2; *str == *it; ++it)": the index at which it stops, or 0
\* when the body returns the invalid-character error.
\* the scan stops one character late
RECURSIVE ScanRepeats_late(_, _, _)
ScanRepeats_late(str, at, it) ==
    IF CharAt(str, at) = CharAt(str, it)
    THEN IF ~parse_roman_character(CharAt(str, at)).ok
         THEN 0
         ELSE ScanRepeats_late(str, at, it + 1)
    ELSE it + 1

RECURSIVE ScanRepeats(_, _, _)
ScanRepeats(str, at, it) ==
    IF CharAt(str, at) = CharAt(str, it)
    THEN IF ~parse_roman_character(CharAt(str, at)).ok
         THEN 0
         ELSE ScanRepeats(str, at, it + 1)
    ELSE it

\* Lines 139-143: the first character stands alone, the second starts the next token
\* the lonely character reported as consuming nothing
LonelyCharacter_zero(first) == TokenResult(success(0), Repeat(first, 1))

LonelyCharacter(first) == TokenResult(success(1), Repeat(first, 1))

\* consume_next_token(str + at - 1, &t)
consume_next_token(str, at) ==
    LET c0 == CharAt(str, at)
        c1 == CharAt(str, at + 1)
        first == parse_roman_character(c0)
        second == parse_roman_character(c1)
        it == ScanRepeats(str, at, at + 2)
        num_repeats == it - at
    IN  IF c0 = NUL \/ c0 = NL
        THEN TokenResult(errorf("EOF", <<>>), NoToken)
        ELSE IF ~first.ok
        THEN TokenResult(errorf("invalid character: %c", <<c0>>), NoToken)
        ELSE IF c1 = NUL \/ c1 = NL
        THEN TokenResult(success(1), Repeat(first.out, 1))
        ELSE IF ~second.ok
        THEN TokenResult(errorf("invalid character: %c", <<c0>>), NoToken)
        ELSE IF first.out < second.out
        THEN IF ~valid_pair(first.out, second.out)
             THEN TokenResult(errorf("invalid pair: %c%c", <<c0, c1>>), NoToken)
             ELSE TokenResult(success(2), Pair(first.out, second.out))
        ELSE IF first.out > second.out
        THEN LonelyCharacter(first.out)
        ELSE IF it = 0
        THEN TokenResult(errorf("invalid character: %c", <<c0>>), NoToken)
        ELSE IF ~valid_repeats(first.out, num_repeats)
        THEN TokenResult(errorf("character %c cannot appear %d times in a row",
                                <<c0, num_repeats>>), NoToken)
        ELSE TokenResult(success(num_repeats), Repeat(first.out, num_repeats))

----------------------------------------------------------------------------
(* The canonical roman numeral of a value, as the reference the parser is   *)
(* compared with: thousands as a run of M, then hundreds, tens and units.   *)

RECURSIVE Run(_, _)
Run(c, n) == IF n = 0 THEN <<>> ELSE <<c>> \o Run(c, n - 1)

\* one decimal digit d (0..9) written with the letters for 1, 5 and 10 of its place
Place(d, one, five, ten) ==
    CASE d \in 0..3 -> Run(one, d)
      [] d = 4      -> <<one, five>>
      [] d \in 5..8 -> <<five>> \o Run(one, d - 5)
      [] d = 9      -> <<one, ten>>

Canonical(v) ==
    Run("M", v \div 1000)
        \o Place((v \div 100) % 10, "C", "D", "M")
        \o Place((v \div 10) % 10, "X", "L", "C")
        \o Place(v % 10, "I", "V", "X")

----------------------------------------------------------------------------
(* The strings parse_roman_number is called with *)

\* every string of at most max characters
ShortInput(max) ==
    /\ \E n \in 0..max : input \in [1..n -> Alphabet]
    /\ origin = [family |-> "any", v |-> 0]

\* the canonical numerals of 1..MaxValue, as typed (with the newline) and bare
CanonicalInput ==
    \E v \in 1..MaxValue :
        /\ input \in {Canonical(v), Append(Canonical(v), NL)}
        /\ origin = [family |-> "canonical", v |-> v]

\* a run of M followed by nothing or by the canonical numeral of a value below 1000
ManyMInput ==
    \E n \in 1..MaxM, k \in 0..999 :
        /\ input = Run("M", n) \o Canonical(k)
        /\ origin = [family |-> "manyM", v |-> 1000 * n + k]

----------------------------------------------------------------------------
(* parse_roman_number *)

\* a C bool, as stored in the variable valid
Bool(b) == IF b THEN "true" ELSE "false"

NoCall == [at |-> 0, value |-> 0, error |-> NULL, t |-> NoToken]

\* The state on entry to parse_roman_number(input)
Entry ==
    /\ pc = "start"
    /\ pos = 1
    /\ prev = NoToken
    /\ next = NoToken
    /\ tally = 0
    /\ result = success(0)
    /\ last = NoCall
    /\ valid = "none"
    /\ iters = 0

Init ==
    /\ ShortInput(MaxLen) \/ CanonicalInput \/ ManyMInput
    /\ Entry

\* Lines 66-81: the empty check and the first token
ParseFirst ==
    /\ pc = "start"
    /\ IF CharAt(input, pos) = NUL
       THEN /\ result' = errorf("input is empty", <<>>)
            /\ pc' = "done"
            /\ UNCHANGED <<pos, prev, tally, last>>
       ELSE LET res == consume_next_token(input, pos)
            IN  /\ last' = [at |-> pos, value |-> res.value, error |-> res.error, t |-> res.t]
                /\ IF res.error # NULL
                   THEN /\ result' = [value |-> res.value, error |-> res.error]
                        /\ pc' = "done"
                        /\ UNCHANGED <<pos, prev, tally>>
                   ELSE /\ prev' = res.t
                        /\ pos' = pos + res.value
                        /\ tally' = tally + token_value(res.t)
                        /\ pc' = "loop"
                        /\ UNCHANGED result
    /\ UNCHANGED <<input, next, valid, iters, origin>>

\* Lines 84-102: one iteration of the loop
ParseNext ==
    /\ pc = "loop"
    /\ CharAt(input, pos) # NL /\ CharAt(input, pos) # NUL
    /\ iters' = iters + 1
    /\ LET res == consume_next_token(input, pos)
       IN  /\ last' = [at |-> pos, value |-> res.value, error |-> res.error, t |-> res.t]
           /\ IF res.error # NULL
              THEN /\ result' = [value |-> res.value, error |-> res.error]
                   /\ pc' = "done"
                   /\ UNCHANGED <<pos, prev, next, tally, valid>>
              ELSE IF ~(res.value > 0)
              THEN /\ pc' = "abort"
                   /\ next' = res.t
                   /\ UNCHANGED <<pos, prev, tally, valid, result>>
              ELSE /\ next' = res.t
                   /\ valid' = Bool(valid_sequence(prev, res.t))
                   /\ IF ~valid_sequence(prev, res.t)
                      THEN /\ \E buff1 \in (IF sprint_token(32, prev).ok
                                            THEN {sprint_token(32, prev).buff}
                                            ELSE Uninitialized),
                                 buff2 \in (IF sprint_token(32, res.t).ok
                                            THEN {sprint_token(32, res.t).buff}
                                            ELSE Uninitialized) :
                                result' = errorf(" %s cannot be followed by %s",
                                                 <<buff1, buff2>>)
                           /\ pc' = "done"
                           /\ UNCHANGED <<pos, prev, tally>>
                      ELSE /\ pos' = pos + res.value
                           /\ tally' = tally + token_value(res.t)
                           /\ prev' = res.t
                           /\ UNCHANGED <<pc, result>>
    /\ UNCHANGED <<input, origin>>

\* Line 104: the loop has ended
ParseReturn ==
    /\ pc = "loop"
    /\ ~(CharAt(input, pos) # NL /\ CharAt(input, pos) # NUL)
    /\ result' = success(tally)
    /\ pc' = "done"
    /\ UNCHANGED <<input, pos, prev, next, tally, last, valid, iters, origin>>

Next == ParseFirst \/ ParseNext \/ ParseReturn

Spec == Init /\ [][Next]_vars

----------------------------------------------------------------------------
(* valid_sequence called on its own, on any two tokens the tokenizer can produce *)

Digits == {1, 5, 10, 50, 100, 500, 1000}

Tokens ==
    {Pair(p, s) : <<p, s>> \in {q \in Digits \X Digits : q[1] < q[2] /\ valid_pair(q[1], q[2])}}
        \cup {Repeat(d, n) : <<d, n>> \in {q \in Digits \X (1..MaxM) : valid_repeats(q[1], q[2])}}

InitSeq ==
    /\ input = <<>>
    /\ origin = [family |-> "any", v |-> 0]
    /\ pc = "valid_sequence"
    /\ pos = 1
    /\ prev \in Tokens
    /\ next \in Tokens
    /\ tally = 0
    /\ result = success(0)
    /\ last = NoCall
    /\ valid = "none"
    /\ iters = 0

CallValidSequence ==
    /\ pc = "valid_sequence"
    /\ valid' = Bool(valid_sequence(prev, next))
    /\ pc' = "returned"
    /\ UNCHANGED <<input, pos, prev, next, tally, result, last, iters, origin>>

NextSeq == Next \/ CallValidSequence

SeqSpec == (Init \/ InitSeq) /\ [][NextSeq]_vars

\* The call returns control to its caller, so a parse that can take a step does
LiveInit ==
    /\ ShortInput(MaxLiveLen) \/ CanonicalInput \/ ManyMInput
    /\ Entry

LiveSpec == LiveInit /\ [][Next]_vars /\ WF_vars(Next)

----------------------------------------------------------------------------
(* Vocabulary of the properties *)

IsTerminator(c) == c = NL \/ c = NUL

\* index of the first terminator of str (Len(str) + 1 when it is the final NUL)
FirstTerminator(str) ==
    CHOOSE i \in 1..(Len(str) + 1) :
        /\ IsTerminator(CharAt(str, i))
        /\ \A j \in 1..(i - 1) : ~IsTerminator(CharAt(str, j))

\* the characters before the first terminator
Line(str) == SubSeq(str, 1, FirstTerminator(str) - 1)

Returned == pc = "done"
Succeeded == pc = "done" /\ result.error = NULL
Failed == pc = "done" /\ result.error # NULL
FailedWith(fmt) == pc = "done" /\ result.error.fmt = fmt

EmptyInput == "input is empty"
EndOfInput == "EOF"
InvalidCharacter == "invalid character: %c"
InvalidPair == "invalid pair: %c%c"
InvalidRepeatCount == "character %c cannot appear %d times in a row"
InvalidSequence == " %s cannot be followed by %s"

----------------------------------------------------------------------------
\* C1: for every v in 1..MaxValue, parsing the canonical numeral of v, with or
\* without a trailing newline, returns success with value exactly v.
C1_RoundTrip ==
    (Returned /\ origin.family = "canonical")
        => /\ input \in {Canonical(origin.v), Append(Canonical(origin.v), NL)}
           /\ result = success(origin.v)

\* MCMXCIX followed by a newline has been parsed to 1999
C1_Witness ==
    /\ Returned
    /\ origin = [family |-> "canonical", v |-> 1999]
    /\ input = <<"M", "C", "M", "X", "C", "I", "X", NL>>
    /\ result.value = 1999

\* C2 (as claimed): the empty string and the lone newline both fail with the
\* "input is empty" failure.
C2_EmptyInput ==
    (Returned /\ input \in {<<>>, <<NL>>}) => FailedWith(EmptyInput)

\* C3: if a character before the end of the line (any position other than the
\* final newline) is not a roman letter, the parse fails.
C3_ForeignCharacterFails ==
    (Returned /\ \E i \in 1..Len(Line(input)) : input[i] \notin Letters) => Failed

\* X and II were accepted before the loop reached the foreign character
C3_Witness ==
    /\ Returned
    /\ input = <<"X", "I", "I", Other, NL>>
    /\ iters = 2
    /\ Failed

\* two adjacent V, L or D, or four adjacent I, X or C
HasIllegalRun(str) ==
    \/ \E i \in 1..(Len(str) - 1) :
           str[i] \in {"V", "L", "D"} /\ str[i + 1] = str[i]
    \/ \E i \in 1..(Len(str) - 3) :
           str[i] \in {"I", "X", "C"} /\ \A j \in 1..3 : str[i + j] = str[i]

\* C4: a line with two adjacent V, L or D or four adjacent I, X or C fails whatever
\* surrounds the run; a run of n M, alone or followed by a canonical numeral below
\* 1000, succeeds with the value 1000 * n plus that numeral's value.
C4_RepetitionRule ==
    /\ (Returned /\ HasIllegalRun(Line(input))) => Failed
    /\ (Returned /\ origin.family = "manyM")
           => /\ input = Run("M", origin.v \div 1000) \o Canonical(origin.v % 1000)
              /\ result = success(origin.v)
    /\ (Returned /\ \E n \in 1..Len(input) : input = Run("M", n))
           => result = success(1000 * Len(input))

\* MMMMMCM was accepted as 5900: more than three M, then a numeral below 1000
C4_Witness ==
    /\ Returned
    /\ input = <<"M", "M", "M", "M", "M", "C", "M">>
    /\ result = success(5900)

----------------------------------------------------------------------------
(* Token classes of the comment in valid_sequence: A+ is any of A, AA, AAA *)

TokenClass(t) ==
    IF t.type = "PAIR"
    THEN <<digit_to_roman(t.prefix), digit_to_roman(t.suffix)>>
    ELSE IF t.digit \in {5, 50, 500}
         THEN <<digit_to_roman(t.digit)>>
         ELSE <<digit_to_roman(t.digit), "+">>

UpToIX == {<<"I", "+">>, <<"I", "V">>, <<"V">>, <<"I", "X">>}
UpToXC == UpToIX \cup {<<"X", "+">>, <<"X", "L">>, <<"L">>, <<"X", "C">>}
UpToCM == UpToXC \cup {<<"C", "+">>, <<"C", "D">>, <<"D">>, <<"C", "M">>}

\* the classes that may follow a token of class c, as the comment lists them
FollowSet(c) ==
    CASE c \in {<<"I", "+">>, <<"I", "V">>, <<"I", "X">>} -> {}
      [] c = <<"V">>                                      -> {<<"I", "+">>}
      [] c \in {<<"X", "+">>, <<"X", "L">>, <<"X", "C">>} -> UpToIX
      [] c = <<"L">>                                      -> UpToIX \cup {<<"X", "+">>}
      [] c \in {<<"C", "+">>, <<"C", "D">>, <<"C", "M">>} -> UpToXC
      [] c = <<"D">>                                      -> UpToXC \cup {<<"C", "+">>}
      [] c = <<"M", "+">>                                 -> UpToCM

\* the rule in words: the leading digit of first against the trailing digit of
\* second when first leads with V, L or D, and against its leading digit otherwise
SequenceRule(first, second) ==
    LET p == IF first.type = "PAIR" THEN first.prefix ELSE first.digit
    IN  IF p \in {5, 50, 500}
        THEN p > (IF second.type = "PAIR" THEN second.suffix ELSE second.digit)
        ELSE p > (IF second.type = "PAIR" THEN second.prefix ELSE second.digit)

\* C5: valid_sequence(first, second) is true exactly when the rule holds, which is
\* exactly when second's class is in the follow set the comment lists for first's
\* class; and a parse whose adjacency is rejected fails with InvalidSequence, naming
\* both tokens (IVIV: IV cannot be followed by IV).
C5_ValidSequence ==
    /\ pc = "returned"
           => /\ valid = Bool(SequenceRule(prev, next))
              /\ valid = Bool(TokenClass(next) \in FollowSet(TokenClass(prev)))
    /\ (Returned /\ valid = "false")
           => /\ TokenClass(next) \notin FollowSet(TokenClass(prev))
              /\ result = errorf(InvalidSequence,
                                 <<sprint_token(32, prev).buff, sprint_token(32, next).buff>>)
    /\ (Returned /\ valid # "false") => result.error.fmt # InvalidSequence
    /\ (Returned /\ input = <<"I", "V", "I", "V">>)
           => result = errorf(InvalidSequence, <<(<<"I", "V">>), (<<"I", "V">>)>>)

\* IVIV was rejected by valid_sequence
C5_Witness ==
    /\ Returned
    /\ input = <<"I", "V", "I", "V">>
    /\ prev = Pair(1, 5)
    /\ next = Pair(1, 5)
    /\ valid = "false"

----------------------------------------------------------------------------
(* The tables of the tokenizer's contract *)

LegalPairs == {<<1, 5>>, <<1, 10>>, <<10, 50>>, <<10, 100>>, <<100, 500>>, <<100, 1000>>}

LegalRepeat(d, n) ==
    \/ d \in {5, 50, 500} /\ n = 1
    \/ d \in {1, 10, 100} /\ n \in 1..3
    \/ d = 1000 /\ n >= 1

DigitOf(c) ==
    CASE c = "I" -> 1 [] c = "V" -> 5 [] c = "X" -> 10 [] c = "L" -> 50
      [] c = "C" -> 100 [] c = "D" -> 500 [] c = "M" -> 1000

\* length of the maximal run of the character at index at
RunLength(str, at) ==
    CHOOSE n \in 1..(Len(str) - at + 1) :
        /\ \A j \in 0..(n - 1) : str[at + j] = str[at]
        /\ CharAt(str, at + n) # str[at]

TokenCall == last.at > 0
TokenReturned(t, consumed) == last.error = NULL /\ last.t = t /\ last.value = consumed
TokenFailed(fmt) == last.error.fmt = fmt /\ last.value = 0

\* C6: a tokenizer call on a remaining input that starts with a roman letter of
\* digit first: followed by a letter of digit second, (a) first < second gives
\* Pair(first, second) consuming 2 iff the pair is legal, else InvalidPair;
\* (b) first > second gives Repeat(first, 1) consuming 1; (c) first = second
\* gives Repeat(first, n) consuming n, n the length of the maximal run, iff
\* (first, n) is a legal repeat, else InvalidRepeatCount; followed by the end of
\* the string or a newline it gives Repeat(first, 1) consuming 1.
C6_TokenizerContract ==
    (TokenCall /\ CharAt(input, last.at) \in Letters) =>
        LET first == DigitOf(CharAt(input, last.at))
            c1 == CharAt(input, last.at + 1)
            n == RunLength(input, last.at)
        IN  /\ IsTerminator(c1) => TokenReturned(Repeat(first, 1), 1)
            /\ (c1 \in Letters /\ first < DigitOf(c1)) =>
                   IF <<first, DigitOf(c1)>> \in LegalPairs
                   THEN TokenReturned(Pair(first, DigitOf(c1)), 2)
                   ELSE TokenFailed(InvalidPair)
            /\ (c1 \in Letters /\ first > DigitOf(c1)) => TokenReturned(Repeat(first, 1), 1)
            /\ (c1 \in Letters /\ first = DigitOf(c1)) =>
                   IF LegalRepeat(first, n)
                   THEN TokenReturned(Repeat(first, n), n)
                   ELSE TokenFailed(InvalidRepeatCount)

\* in MCCXL the loop has just read the pair XL after M and CC
C6_Witness ==
    /\ input = <<"M", "C", "C", "X", "L">>
    /\ last.at = 4
    /\ last.t = Pair(10, 50)
    /\ last.value = 2
    /\ prev = Pair(10, 50)

\* C7: each successful tokenizer call consumes at least one character and no more
\* than remain before the first terminator; so the assertion res.value > 0 never
\* fails and the cursor never passes the first terminator.
C7_Progress ==
    /\ (TokenCall /\ last.error = NULL)
           => (1 <= last.value /\ last.value <= FirstTerminator(input) - last.at)
    /\ pc # "abort"
    /\ pos <= FirstTerminator(input)

\* the run III was consumed up to, and not past, a newline that other text follows
C7_Witness ==
    /\ input = <<"I", "I", "I", NL, "I">>
    /\ last.value = 3
    /\ pos = 4
    /\ Succeeded

\* C8: every call returns, and the loop runs at most once per character that
\* precedes the terminator.
C8_Terminates ==
    /\ <>(pc = "done")
    /\ [](iters <= FirstTerminator(input) - 1)

\* MDCLX returned after four iterations, one per token after the first
C8_Witness ==
    /\ Returned
    /\ input = <<"M", "D", "C", "L", "X">>
    /\ iters = 4

\* C9 (as claimed): the character named by an InvalidCharacter failure is a character
\* of the input that is not a roman letter.
C9_NamesOffendingCharacter ==
    FailedWith(InvalidCharacter)
        => /\ result.error.args[1] \notin Letters
           /\ \E i \in 1..Len(input) : input[i] = result.error.args[1]

\* C10: every accepted input is, up to its terminator, a run of M followed by the
\* canonical numeral of a value below 1000, not both empty, and its value is
\* 1000 per M plus that value: an accepted input is the one canonical spelling
\* of the value returned.
C10_OnlyCanonicalAccepted ==
    Succeeded
        => /\ result.value >= 1
           /\ Line(input) = Run("M", result.value \div 1000)
                                \o Canonical(result.value % 1000)

\* MMMMI, with more than three M, was accepted as 4001
C10_Witness ==
    /\ Succeeded
    /\ origin.family = "any"
    /\ input = <<"M", "M", "M", "M", "I">>
    /\ result.value = 4001

====
